---- MODULE Spec2Model ----
(***************************************************************************)
(* ConcertsFinder: the artist/event matching and ranking engine.           *)
(*                                                                         *)
(* Text is modelled at character level: a JavaScript string is a sequence  *)
(* of one-character strings, so that normalisation, lower-casing, the      *)
(* title regex and the dedupe key are computed, not assumed.  The empty    *)
(* sequence stands for "" and for an absent (undefined) string: the code   *)
(* only ever tests such values for truthiness.                             *)
(***************************************************************************)
EXTENDS Integers, Sequences, FiniteSets, TLC

VARIABLES
    mapFn,      \* which provider query ran: "none" before the call
    mapIn,      \* its arguments: artistName, attractionId, events (the provider's reply)
    mapOut,     \* the EventItem list it returned
    savedTracks,\* /api/events: names of the Liked Songs artists, in the provider's order
    top,        \* names of the top artists
    followed,   \* names of the followed artists
    ignoreSet,  \* the parsed ignore list: trimmed, lower-cased, non-empty names
    capQuery,   \* ?cap= as parsed by parseInt: <<n>>, or <<>> when absent
    breadth,    \* ?breadth=
    names,      \* the artist pool
    poolPc,     \* "start" before the pool is built, "built" after
    items,      \* dedupe: its argument
    unique,     \* dedupe(items)
    uniqueAgain,\* dedupe(unique)
    dedupePc,   \* "start", "once", "twice"
    rankEvents, \* rank: its argument `events`
    ctx,        \* rank: its argument `ctx`
    ranked,     \* rank(events, ctx)
    rankPc,     \* "start", "ranked"
    tmEvents,   \* the event-search provider's events
    apiPc,      \* GET /api/events: "start", "query", "generic", "done"
    idx,        \* runLimited: the next input index to claim
    wk,         \* runLimited: each worker's position and claimed index
    results,    \* runLimited: the accumulator
    all,        \* the events of the per-artist phase, or of the fallback
    foundBy,    \* history: <<source_id, artist>> for each event a query for artist found
    response,   \* the events of the response
    inputs,     \* runLimited: its argument `inputs`, each item with what its task does
    limit,      \* runLimited: its argument `limit`
    gapMs,      \* runLimited: its argument `gapMs`
    now,        \* the clock the timers run on
    rlPc,       \* runLimited: "start", "running", "resolved" or "rejected"
    starters,   \* runLimited: the number of next() chains started
    invoked,    \* history: the indices whose task was invoked, in order
    settled,    \* history: the indices whose task settled, in order
    tmLog,      \* history: the requests sent to the event-search provider
    tmDown,     \* the kinds of provider request that answer with a failure status
    fetchFn,    \* the fetch function that ran: "none" before the call
    httpRes,    \* the HTTP response it received: status and body
    fetchOut    \* what it did: the value returned or the error thrown

mapVars == <<mapFn, mapIn, mapOut>>
poolVars == <<savedTracks, top, followed, ignoreSet, capQuery, breadth, names, poolPc>>
dedupeVars == <<items, unique, uniqueAgain, dedupePc>>
rankVars == <<rankEvents, ctx, ranked, rankPc>>
apiVars == <<tmEvents, apiPc, idx, wk, results, all, foundBy, response>>
runVars == <<inputs, limit, gapMs, now, rlPc, starters, invoked, settled>>
queryVars == <<tmLog, tmDown>>
fetchVars == <<fetchFn, httpRes, fetchOut>>

vars == <<mapFn, mapIn, mapOut,
          savedTracks, top, followed, ignoreSet, capQuery, breadth, names, poolPc,
          items, unique, uniqueAgain, dedupePc,
          rankEvents, ctx, ranked, rankPc,
          tmEvents, apiPc, idx, wk, results, all, foundBy, response,
          inputs, limit, gapMs, now, rlPc, starters, invoked, settled,
          tmLog, tmDown, fetchFn, httpRes, fetchOut>>

-----------------------------------------------------------------------------
(* Characters *)

LowerAlpha == <<"a", "b", "c", "d", "e", "f", "g", "h", "i", "j", "k", "l", "m",
                "n", "o", "p", "q", "r", "s", "t", "u", "v", "w", "x", "y", "z">>
UpperAlpha == <<"A", "B", "C", "D", "E", "F", "G", "H", "I", "J", "K", "L", "M",
                "N", "O", "P", "Q", "R", "S", "T", "U", "V", "W", "X", "Y", "Z">>
Digits == {"0", "1", "2", "3", "4", "5", "6", "7", "8", "9"}

\* One-character strings outside ASCII are written by code point.
EAcute == "U+00E9"          \* e with acute accent, precomposed
EAcuteUpper == "U+00C9"
CombiningAcute == "U+0301"  \* a combining mark, in the range u0300-u036f
CurlyApostrophe == "U+2019"

Range(s) == {s[i] : i \in 1..Len(s)}

UpperChars == Range(UpperAlpha)
AlnumChars == Range(LowerAlpha) \cup Digits

\* the lower-case form of each upper-case letter
LowerMap ==
    [c \in UpperChars \cup {EAcuteUpper} |->
        IF c = EAcuteUpper THEN EAcute
        ELSE LowerAlpha[CHOOSE i \in 1..26 : UpperAlpha[i] = c]]

\* String.prototype.toLowerCase on one character
LowerChar(c) == IF c \in DOMAIN LowerMap THEN LowerMap[c] ELSE c

\* String.prototype.toLowerCase
toLowerCase(s) == [i \in 1..Len(s) |-> LowerChar(s[i])]

\* rank.ts: toLc = (s || "").toLowerCase()
toLc(s) == toLowerCase(s)

-----------------------------------------------------------------------------
(* norm: NameNormalizer *)

RECURSIVE FlatMap(_, _)
FlatMap(F(_), s) == IF s = <<>> THEN <<>> ELSE F(Head(s)) \o FlatMap(F, Tail(s))

\* .normalize("NFKD") on one character: a precomposed letter becomes the
\* base letter followed by the combining mark
NFKDChar(c) ==
    IF c = EAcute THEN <<"e", CombiningAcute>>
    ELSE IF c = EAcuteUpper THEN <<"E", CombiningAcute>>
    ELSE <<c>>

\* .replace(/[\u0300-\u036f]/g, "")
StripCombining(c) == IF c = CombiningAcute THEN <<>> ELSE <<c>>

\* .replace(/[\u2019]/g, "'")
UnifyApostrophe(c) == IF c = CurlyApostrophe THEN <<"'">> ELSE <<c>>

IsAlnum(c) == c \in AlnumChars

\* .replace(/[^a-z0-9]+/g, " "): every maximal run of other characters
\* becomes one space
RECURSIVE CollapseNonAlnum(_, _)
CollapseNonAlnum(s, inRun) ==
    IF s = <<>> THEN <<>>
    ELSE IF IsAlnum(Head(s)) THEN <<Head(s)>> \o CollapseNonAlnum(Tail(s), FALSE)
    ELSE IF inRun THEN CollapseNonAlnum(Tail(s), TRUE)
    ELSE <<" ">> \o CollapseNonAlnum(Tail(s), TRUE)

\* .trim()
RECURSIVE TrimLeft(_)
TrimLeft(s) == IF s # <<>> /\ Head(s) = " " THEN TrimLeft(Tail(s)) ELSE s
RECURSIVE TrimRight(_)
TrimRight(s) ==
    IF s # <<>> /\ s[Len(s)] = " " THEN TrimRight(SubSeq(s, 1, Len(s) - 1)) ELSE s
trim(s) == TrimRight(TrimLeft(s))

norm(s) ==
    trim(CollapseNonAlnum(
        toLowerCase(FlatMap(UnifyApostrophe,
                    FlatMap(StripCombining, FlatMap(NFKDChar, s)))),
        FALSE))

-----------------------------------------------------------------------------
(* bannedTitle: the TitleGuard regex *)

\* the alternatives of /\b(...)\b/
Markers == {
    <<"t", "r", "i", "b", "u", "t", "e">>,
    <<"a", " ", "t", "r", "i", "b", "u", "t", "e", " ", "t", "o">>,
    <<"m", "u", "s", "i", "c", " ", "o", "f">>,
    <<"t", "h", "e", " ", "m", "u", "s", "i", "c", " ", "o", "f">>,
    <<"p", "e", "r", "f", "o", "r", "m", "s", " ", "t", "h", "e", " ", "m", "u", "s", "i", "c", " ", "o", "f">>,
    <<"p", "e", "r", "f", "o", "r", "m", "i", "n", "g", " ", "t", "h", "e", " ", "m", "u", "s", "i", "c", " ", "o", "f">>,
    <<"p", "l", "a", "y", "s", " ", "t", "h", "e", " ", "m", "u", "s", "i", "c", " ", "o", "f">>,
    <<"v", "s">>,
    <<"n", "i", "g", "h", "t">>,
    <<"p", "a", "r", "t", "y">>,
    <<"o", "r", "c", "h", "e", "s", "t", "r", "a">>,
    <<"s", "y", "m", "p", "h", "o", "n", "y">>,
    <<"p", "h", "i", "l", "h", "a", "r", "m", "o", "n", "i", "c">>,
    <<"c", "a", "n", "d", "l", "e", "l", "i", "g", "h", "t">>,
    <<"s", "t", "r", "i", "n", "g", " ", "q", "u", "a", "r", "t", "e", "t">>,
    <<"e", "n", "s", "e", "m", "b", "l", "e">>,
    <<"e", "x", "p", "e", "r", "i", "e", "n", "c", "e">>,
    <<"f", "i", "l", "m", " ", "c", "o", "n", "c", "e", "r", "t">>,
    <<"i", "n", " ", "c", "o", "n", "c", "e", "r", "t", " ", "w", "i", "t", "h">> }

\* \w
IsWordChar(c) == IsAlnum(c) \/ c \in UpperChars \/ c = "_"

\* \b at position p of s: between s[p-1] and s[p], exactly one is a word character
WordBoundary(s, p) ==
    LET before == p > 1 /\ p - 1 <= Len(s) /\ IsWordChar(s[p - 1])
        after  == p >= 1 /\ p <= Len(s) /\ IsWordChar(s[p])
    IN  before # after

\* m occurs in s at position i
OccursAt(s, m, i) == i + Len(m) - 1 <= Len(s) /\ SubSeq(s, i, i + Len(m) - 1) = m

\* bannedTitle.test(s)
bannedTitle(s) ==
    \E m \in Markers : \E i \in 1..Len(s) :
        OccursAt(s, m, i) /\ WordBoundary(s, i) /\ WordBoundary(s, i + Len(m))

-----------------------------------------------------------------------------
(* mapEvents: PerformerMatcher + TitleGuard + EventMapper *)

\* const byId = ensureId && a.id === ensureId
byId(a, ensureId) == ensureId # "" /\ a.id = ensureId

\* const byName = nExpected ? norm(a.name) === nExpected : false
byName(a, nExpected) == IF nExpected # <<>> THEN norm(a.name) = nExpected ELSE FALSE

\* a matcher that trusts the id alone on the id path
ok_IdOnly(a, ensureId, expectedName, nExpected) ==
    IF ensureId # "" THEN byId(a, ensureId)
    ELSE IF nExpected # <<>> THEN byName(a, nExpected)
    ELSE FALSE

\* const ok = ...
ok(a, ensureId, expectedName, nExpected) ==
    IF ensureId # "" /\ expectedName # <<>>
    THEN byId(a, ensureId) /\ byName(a, nExpected)
    ELSE IF ensureId # "" THEN byId(a, ensureId)
    ELSE IF nExpected # <<>> THEN byName(a, nExpected)
    ELSE FALSE

\* the inner loop: the first attraction that is ok, <<>> when none is
RECURSIVE matched(_, _, _, _)
matched(atts, ensureId, expectedName, nExpected) ==
    IF atts = <<>> THEN <<>>
    ELSE IF ok(Head(atts), ensureId, expectedName, nExpected) THEN <<Head(atts)>>
    ELSE matched(Tail(atts), ensureId, expectedName, nExpected)

\* if (!ensureId && nExpected) { if (bannedTitle.test(norm(ev.name))) continue; }
titleGuard(ev, ensureId, nExpected) ==
    ensureId = "" /\ nExpected # <<>> /\ bannedTitle(norm(ev.name))

DigitSeq == <<"0", "1", "2", "3", "4", "5", "6", "7", "8", "9">>
DigitVal(c) == (CHOOSE i \in 1..10 : DigitSeq[i] = c) - 1

RECURSIVE NumeralVal(_, _)
NumeralVal(s, acc) ==
    IF s = <<>> THEN acc ELSE NumeralVal(Tail(s), 10 * acc + DigitVal(Head(s)))

\* the leading digits of s
RECURSIVE DigitPrefix(_)
DigitPrefix(s) ==
    IF s # <<>> /\ Head(s) \in Digits THEN <<Head(s)>> \o DigitPrefix(Tail(s)) ELSE <<>>

\* parseFloat on an unsigned whole number of tenths of a degree: <<n>>, or <<>>
\* for NaN
parseFloat(s) == IF DigitPrefix(s) = <<>> THEN <<>> ELSE <<NumeralVal(DigitPrefix(s), 0)>>

\* the constant source tag "tm"
TM == <<"t", "m">>

\* a mutation of artistNameOf: the caller's query string
artistNameOf_Query(m, artistName) == artistName

\* matched.name || artistName
artistNameOf(m, artistName) == IF m.name # <<>> THEN m.name ELSE artistName

\* out.push({...})
EventItemOf(ev, m, artistName) ==
    [ source      |-> TM,
      source_id   |-> ev.id,
      event_name  |-> ev.name,
      artist_name |-> artistNameOf(m, artistName),
      venue_name  |-> IF ev.venues = <<>> THEN <<>> ELSE ev.venues[1].name,
      lat         |-> IF ev.venues = <<>> THEN <<>> ELSE parseFloat(ev.venues[1].latitude),
      lon         |-> IF ev.venues = <<>> THEN <<>> ELSE parseFloat(ev.venues[1].longitude),
      start_utc   |-> ev.dateTime,
      url         |-> ev.url ]

\* the body of the outer loop for one raw record: zero or one EventItem
mapOne(artistName, ev, ensureId, expectedName) ==
    LET nExpected == norm(IF expectedName # <<>> THEN expectedName ELSE artistName)
        m == matched(ev.attractions, ensureId, expectedName, nExpected)
    IN  IF m = <<>> THEN <<>>
        ELSE IF titleGuard(ev, ensureId, nExpected) THEN <<>>
        ELSE <<EventItemOf(ev, m[1], artistName)>>

RECURSIVE mapEvents(_, _, _, _)
mapEvents(artistName, events, ensureId, expectedName) ==
    IF events = <<>> THEN <<>>
    ELSE mapOne(artistName, Head(events), ensureId, expectedName)
         \o mapEvents(artistName, Tail(events), ensureId, expectedName)

\* the three provider queries, given the provider's reply `events`
findTicketmasterEventsByAttractionId(attractionId, expectedArtistName, events) ==
    mapEvents(expectedArtistName, events, attractionId, expectedArtistName)

findTicketmasterEventsByKeywordStrict(artistName, events) ==
    mapEvents(artistName, events, "", <<>>)

findTicketmasterEventsGeneric(events) ==
    mapEvents(<<>>, events, "", <<>>)

-----------------------------------------------------------------------------
(* Inputs of the provider queries *)

MaxAtts == 2      \* embedded performers per raw record
MaxEvents == 1    \* raw records per provider reply

SeqsUpTo(S, n) == UNION {[1..k -> S] : k \in 0..n}

Queen == <<"Q", "u", "e", "e", "n">>
QueenLc == <<"q", "u", "e", "e", "n">>
Zoe == <<"Z", "o", "e">>
ZoeAccent == <<"Z", "o", EAcute>>
Bangs == <<"!", "!", "!">>
TributeToQueen == <<"T", "r", "i", "b", "u", "t", "e", " ", "t", "o", " ", "Q", "u", "e", "e", "n">>
QueenTonight == <<"Q", "u", "e", "e", "n", " ", "T", "o", "n", "i", "g", "h", "t">>

\* the provider's performers (TMAttraction): an id names one performer
Attractions == { [id |-> "K1", name |-> Queen],
                 [id |-> "K2", name |-> ZoeAccent],
                 [id |-> "K3", name |-> Bangs],
                 [id |-> "K4", name |-> <<>>] }
AttractionIds == {"K1", "K2", "K3", "K4"}

\* the names the caller asks for (Spotify's spelling); <<>> is ""
ArtistNames == {QueenLc, Zoe, Bangs, <<>>}

Titles == {Queen, TributeToQueen, QueenTonight}

AttLists ==
    {l \in SeqsUpTo(Attractions, MaxAtts) :
        \A i, j \in 1..Len(l) : i # j => l[i].id # l[j].id}

EventIds == << <<"E", "1">>, <<"E", "2">>, <<"E", "3">>, <<"E", "4">> >>

\* a TMEvent without venue and date
RawEvent(i, title, atts) ==
    [ id |-> EventIds[i], name |-> title, url |-> EventIds[i], dateTime |-> <<>>,
      attractions |-> atts, venues |-> <<>> ]

RawEventLists ==
    UNION { { [i \in 1..k |-> RawEvent(i, t[i], a[i])] :
                t \in [1..k -> Titles], a \in [1..k -> AttLists] } : k \in 0..MaxEvents }

-----------------------------------------------------------------------------
(* The provider queries as a state machine: one call on inputs chosen in Init *)

MapIdle ==
    /\ mapFn = "none"
    /\ mapIn = [artistName |-> <<>>, attractionId |-> "", events |-> <<>>]
    /\ mapOut = <<>>

PoolIdle ==
    /\ savedTracks = <<>> /\ top = <<>> /\ followed = <<>>
    /\ ignoreSet = {} /\ capQuery = <<>> /\ breadth = "wide"
    /\ names = <<>> /\ poolPc = "idle"

DedupeIdle ==
    items = <<>> /\ unique = <<>> /\ uniqueAgain = <<>> /\ dedupePc = "idle"

NoCtx ==
    [ userLat |-> <<>>, userLon |-> <<>>, likedArtistNames |-> {},
      topArtistNames |-> {}, followedArtistNames |-> {}, preferredArtistNames |-> <<>> ]

RankIdle ==
    rankEvents = <<>> /\ ctx = NoCtx /\ ranked = <<>> /\ rankPc = "idle"

ApiIdle ==
    /\ tmEvents = <<>> /\ apiPc = "idle" /\ idx = 1 /\ wk = <<>> /\ results = <<>>
    /\ all = <<>> /\ foundBy = {} /\ response = <<>>

RunIdle ==
    /\ inputs = <<>> /\ limit = 0 /\ gapMs = 0 /\ now = 0 /\ rlPc = "idle"
    /\ starters = 0 /\ invoked = <<>> /\ settled = <<>>

QueryIdle == tmLog = {} /\ tmDown = {}

FetchIdle ==
    /\ fetchFn = "none" /\ httpRes = [status |-> 0, body |-> <<>>]
    /\ fetchOut = [kind |-> "none", error |-> "", value |-> <<>>]

MapInit ==
    /\ mapFn = "none"
    /\ mapIn \in [artistName : ArtistNames, attractionId : AttractionIds,
                  events : RawEventLists]
    /\ mapOut = <<>>
    /\ PoolIdle
    /\ DedupeIdle
    /\ RankIdle
    /\ ApiIdle
    /\ RunIdle
    /\ QueryIdle
    /\ FetchIdle

ByAttractionId ==
    /\ mapFn = "none"
    /\ mapFn' = "byAttractionId"
    /\ mapOut' = findTicketmasterEventsByAttractionId(
                     mapIn.attractionId, mapIn.artistName, mapIn.events)
    /\ UNCHANGED <<mapIn, poolVars, dedupeVars, rankVars, apiVars, runVars, queryVars, fetchVars>>

ByKeywordStrict ==
    /\ mapFn = "none"
    /\ mapFn' = "byKeywordStrict"
    /\ mapOut' = findTicketmasterEventsByKeywordStrict(mapIn.artistName, mapIn.events)
    /\ UNCHANGED <<mapIn, poolVars, dedupeVars, rankVars, apiVars, runVars, queryVars, fetchVars>>

Generic ==
    /\ mapFn = "none"
    /\ mapFn' = "generic"
    /\ mapOut' = findTicketmasterEventsGeneric(mapIn.events)
    /\ UNCHANGED <<mapIn, poolVars, dedupeVars, rankVars, apiVars, runVars, queryVars, fetchVars>>

MapNext == ByAttractionId \/ ByKeywordStrict \/ Generic

SpecMap == MapInit /\ [][MapNext]_vars

\* raw record i of the reply produced an EventItem
Emitted(i) == \E k \in 1..Len(mapOut) : mapOut[k].source_id = mapIn.events[i].id

Performers(i) == Range(mapIn.events[i].attractions)

\* identity mode: mapEvents got an ensureId and an expected name
IdentityMode == mapFn = "byAttractionId" /\ mapIn.artistName # <<>>
\* name mode: mapEvents got an artist name and no ensureId
NameMode == mapFn = "byKeywordStrict" /\ mapIn.artistName # <<>>

\* the identity condition of the specification, on one performer
IdentityCondition(a) ==
    a.id = mapIn.attractionId /\ norm(a.name) = norm(mapIn.artistName)

\* C1: in identity mode a raw record produces an EventItem only if one of its
\* performers has the queried id and a normalized name equal to the normalized
\* expected name; an id match with another name is never enough.
C1_IdentityNeedsIdAndName ==
    IdentityMode =>
        \A i \in 1..Len(mapIn.events) :
            Emitted(i) => \E a \in Performers(i) : IdentityCondition(a)

\* C1 witness: an identity-mode call over a record whose performer has the
\* queried id under another name, and the record was dropped
C1_Witness ==
    /\ IdentityMode
    /\ \E i \in 1..Len(mapIn.events) :
        /\ \E a \in Performers(i) :
              a.id = mapIn.attractionId /\ norm(a.name) # norm(mapIn.artistName)
        /\ ~Emitted(i)

\* C2: in name mode a record is kept (subject to the title guard) whenever one
\* of its performers has a normalized name equal to the normalized target name,
\* for every target and performer name; a record without such a performer
\* yields nothing.
C2_NameModeAcceptsEqualNorm ==
    NameMode =>
        \A i \in 1..Len(mapIn.events) :
            LET same == \E a \in Performers(i) : norm(a.name) = norm(mapIn.artistName)
            IN  /\ (same /\ ~bannedTitle(norm(mapIn.events[i].name))) => Emitted(i)
                /\ ~same => ~Emitted(i)

\* C3: name mode never emits an event whose normalized title holds a marker
\* term, and in identity mode a record whose performer satisfies the identity
\* condition is emitted whatever its title.
C3_TitleGuard ==
    /\ (mapFn \in {"byKeywordStrict", "generic"}) =>
          \A k \in 1..Len(mapOut) : ~bannedTitle(norm(mapOut[k].event_name))
    /\ IdentityMode =>
          \A i \in 1..Len(mapIn.events) :
              (\E a \in Performers(i) : IdentityCondition(a)) => Emitted(i)

\* the performer meets the condition of the mode the call ran in
Accepted(a) ==
    IF mapFn = "byAttractionId"
    THEN a.id = mapIn.attractionId
         /\ (mapIn.artistName # <<>> => norm(a.name) = norm(mapIn.artistName))
    ELSE norm(a.name) = norm(mapIn.artistName)

\* C16: every EventItem mapEvents emits, in either mode, carries as artist_name
\* the name of a performer of its own raw record that met the mode's condition:
\* the provider's spelling, not the caller's.
C16_ArtistNameIsPerformerName ==
    \A k \in 1..Len(mapOut) :
        \E i \in 1..Len(mapIn.events) :
            /\ mapIn.events[i].id = mapOut[k].source_id
            /\ \E a \in Performers(i) : Accepted(a) /\ mapOut[k].artist_name = a.name

\* a name-mode call emitted an event under a spelling that is not the caller's
C16_Witness ==
    /\ mapFn = "byKeywordStrict"
    /\ \E k \in 1..Len(mapOut) : mapOut[k].artist_name # mapIn.artistName

-----------------------------------------------------------------------------
(* ArtistPoolBuilder: the pool construction of GET /api/events *)

MaxLiked == 2       \* length of the Liked Songs artist list
MaxTop == 1         \* length of the top artist list
MaxFollowed == 1    \* length of the followed artist list
MaxCapQuery == 3    \* largest ?cap= value

CapMin == 1
CapMax == 1500
CapTight == 320
CapBalanced == 520
CapWide == 820

Min(a, b) == IF a < b THEN a ELSE b
Max(a, b) == IF a > b THEN a ELSE b

\* names.filter(n => !ignoreSet.has(n.toLowerCase()))
RECURSIVE filterIgnored(_, _)
filterIgnored(ns, ignore) ==
    IF ns = <<>> THEN <<>>
    ELSE (IF toLowerCase(Head(ns)) \in ignore THEN <<>> ELSE <<Head(ns)>>)
         \o filterIgnored(Tail(ns), ignore)

\* a pool key that keeps the case
uniqueKey_CaseSensitive(n) == n

\* the key uniquePreserveOrder compares by
uniqueKey(n) == toLowerCase(n)

RECURSIVE uniqueLoop(_, _)
uniqueLoop(ns, seen) ==
    IF ns = <<>> THEN <<>>
    ELSE LET k == uniqueKey(Head(ns))
         IN  IF k \in seen THEN uniqueLoop(Tail(ns), seen)
             ELSE <<Head(ns)>> \o uniqueLoop(Tail(ns), seen \cup {k})

uniquePreserveOrder(ns) == uniqueLoop(ns, {})

\* Array.prototype.slice(0, n)
slice0(s, n) == SubSeq(s, 1, Min(Max(n, 0), Len(s)))

\* capOverride ?? defaultCap
capOf(q, b) ==
    IF q # <<>> THEN Max(CapMin, Min(CapMax, q[1]))
    ELSE IF b = "tight" THEN CapTight
    ELSE IF b = "balanced" THEN CapBalanced
    ELSE CapWide

likedNames == filterIgnored(savedTracks, ignoreSet)
topNames == filterIgnored(top, ignoreSet)
followedNames == filterIgnored(followed, ignoreSet)

\* a pool that takes the top artists first
tierOrder_TopFirst(l, t, f) == t \o l \o f

\* the order in which the three tiers enter the pool
tierOrder(l, t, f) == l \o t \o f

\* const names = uniquePreserveOrder([...likedNames, ...topNames, ...followedNames]).slice(0, cap)
poolOf(l, t, f, cap) == slice0(uniquePreserveOrder(tierOrder(l, t, f)), cap)

LcSet(ns) == {toLowerCase(ns[i]) : i \in 1..Len(ns)}
likedSet == LcSet(likedNames)
topSet == LcSet(topNames)
followedSet == LcSet(followedNames)
coreSet == LcSet(names)

PoolNames == {Queen, QueenLc, Zoe, Bangs}
IgnoreNames == {QueenLc, toLowerCase(Zoe)}

PoolInit ==
    /\ savedTracks \in SeqsUpTo(PoolNames, MaxLiked)
    /\ top \in SeqsUpTo(PoolNames, MaxTop)
    /\ followed \in SeqsUpTo(PoolNames, MaxFollowed)
    /\ ignoreSet \in SUBSET IgnoreNames
    /\ \/ capQuery = <<>> /\ breadth \in {"tight", "balanced", "wide"}
       \/ capQuery \in {<<c>> : c \in 0..MaxCapQuery} /\ breadth = "wide"
    /\ names = <<>>
    /\ poolPc = "start"
    /\ MapIdle
    /\ DedupeIdle
    /\ RankIdle
    /\ ApiIdle
    /\ RunIdle
    /\ QueryIdle
    /\ FetchIdle

BuildPool ==
    /\ poolPc = "start"
    /\ names' = poolOf(likedNames, topNames, followedNames, capOf(capQuery, breadth))
    /\ poolPc' = "built"
    /\ UNCHANGED <<savedTracks, top, followed, ignoreSet, capQuery, breadth,
                   mapVars, dedupeVars, rankVars, apiVars, runVars, queryVars, fetchVars>>

PoolNext == BuildPool

SpecPool == PoolInit /\ [][PoolNext]_vars

\* the claim's own construction, stated on positions of the concatenation
Concat == savedTracks \o top \o followed
Ignored(n) == toLowerCase(n) \in ignoreSet
SameIgnoringCase(a, b) == toLowerCase(a) = toLowerCase(b)
\* positions of the concatenation that survive: not ignored, and no earlier
\* surviving position holds the same name ignoring case
Kept == {i \in 1..Len(Concat) :
            /\ ~Ignored(Concat[i])
            /\ \A j \in 1..(i - 1) : ~SameIgnoringCase(Concat[j], Concat[i])}
\* the k-th smallest element of a set of positions
RECURSIVE Ascending(_)
Ascending(S) ==
    IF S = {} THEN <<>>
    ELSE LET m == CHOOSE x \in S : \A y \in S : x <= y
         IN  <<m>> \o Ascending(S \ {m})
ExpectedPool ==
    LET kept == Ascending(Kept)
        n == Min(capOf(capQuery, breadth), Len(kept))
    IN  [k \in 1..n |-> Concat[kept[k]]]

-----------------------------------------------------------------------------
(* EventDeduper *)

MaxItems == 2     \* length of the list given to dedupe

\* `${a}|${b}|${c}|${d}|${e}`
Join5(a, b, c, d, e) == a \o <<"|">> \o b \o <<"|">> \o c \o <<"|">> \o d \o <<"|">> \o e

\* a key that keeps the case of event_name
keyName_CaseSensitive(e) == e.event_name

\* (e.event_name || "").toLowerCase()
keyName(e) == toLowerCase(e.event_name)

\* const key = `${e.source || "tm"}|${e.source_id || ""}|${e.url || ""}|...`
dedupeKey(e) ==
    Join5(IF e.source # <<>> THEN e.source ELSE TM,
          e.source_id, e.url, keyName(e), e.start_utc)

RECURSIVE dedupeLoop(_, _)
dedupeLoop(es, seen) ==
    IF es = <<>> THEN <<>>
    ELSE LET key == dedupeKey(Head(es))
         IN  IF key \in seen THEN dedupeLoop(Tail(es), seen)
             ELSE <<Head(es)>> \o dedupeLoop(Tail(es), seen \cup {key})

dedupe(es) == dedupeLoop(es, {})

\* the events dedupe is tried on: every combination of these field values
DedupeEvents ==
    [ source      : {<<>>, TM},
      source_id   : {<<"E", "1">>, <<"E", "1", "|">>},
      url         : {<<>>, <<"|">>},
      event_name  : {Queen, QueenLc},
      artist_name : {Queen},
      venue_name  : {<<>>, <<"V">>},
      lat         : {<<>>},
      lon         : {<<>>},
      start_utc   : {<<>>, <<"7">>} ]

DedupeInit ==
    /\ items \in SeqsUpTo(DedupeEvents, MaxItems)
    /\ unique = <<>>
    /\ uniqueAgain = <<>>
    /\ dedupePc = "start"
    /\ MapIdle
    /\ PoolIdle
    /\ RankIdle
    /\ ApiIdle
    /\ RunIdle
    /\ QueryIdle
    /\ FetchIdle

DedupeOnce ==
    /\ dedupePc = "start"
    /\ unique' = dedupe(items)
    /\ dedupePc' = "once"
    /\ UNCHANGED <<items, uniqueAgain, mapVars, poolVars, rankVars, apiVars, runVars, queryVars, fetchVars>>

DedupeTwice ==
    /\ dedupePc = "once"
    /\ uniqueAgain' = dedupe(unique)
    /\ dedupePc' = "twice"
    /\ UNCHANGED <<items, unique, mapVars, poolVars, rankVars, apiVars, runVars, queryVars, fetchVars>>

DedupeNext == DedupeOnce \/ DedupeTwice

SpecDedupe == DedupeInit /\ [][DedupeNext]_vars

\* the composite key as the five-field tuple, missing fields as ""
KeyTuple(e) == <<e.source, e.source_id, e.url, toLowerCase(e.event_name), e.start_utc>>

\* a is a subsequence of b
RECURSIVE IsSubsequence(_, _)
IsSubsequence(a, b) ==
    IF a = <<>> THEN TRUE
    ELSE IF b = <<>> THEN FALSE
    ELSE IF Head(a) = Head(b) THEN IsSubsequence(Tail(a), Tail(b))
    ELSE IsSubsequence(a, Tail(b))

\* the earliest input event with the composite key of e
Earliest(e) ==
    items[CHOOSE i \in 1..Len(items) :
            /\ KeyTuple(items[i]) = KeyTuple(e)
            /\ \A j \in 1..(i - 1) : KeyTuple(items[j]) # KeyTuple(e)]

\* C6: dedupe returns a subsequence of its input that holds at most one event
\* per composite key, each the earliest input event of its key (whatever the
\* other fields, such as venue_name), and deduping the result changes nothing.
C6_DedupeContract ==
    /\ dedupePc \in {"once", "twice"} =>
          /\ IsSubsequence(unique, items)
          /\ \A i, j \in 1..Len(unique) :
                i # j => KeyTuple(unique[i]) # KeyTuple(unique[j])
          /\ \A k \in 1..Len(unique) : unique[k] = Earliest(unique[k])
    /\ dedupePc = "twice" => uniqueAgain = unique

\* C6 witness: two events equal in the key, up to the case of event_name, and
\* different in venue_name were collapsed to the first, and the result was
\* deduped again
C6_Witness ==
    /\ dedupePc = "twice"
    /\ Len(items) = 2 /\ Len(unique) = 1
    /\ items[1].venue_name # items[2].venue_name
    /\ items[1].event_name # items[2].event_name
    /\ unique[1] = items[1]

\* the five fields the key is built from, as a tuple: source with its
\* default "tm", event_name lower-cased
FiveTuple(e) ==
    << IF e.source # <<>> THEN e.source ELSE TM,
       e.source_id, e.url, toLowerCase(e.event_name), e.start_utc >>

\* C21: dedupe removes an event only when an earlier event has the identical
\* five-field tuple: the first event of every tuple is retained, whatever the
\* field values, those holding the separator '|' included.
C21_RemovesOnlyIdenticalTuples ==
    dedupePc \in {"once", "twice"} =>
        \A i \in 1..Len(items) :
            (\A j \in 1..(i - 1) : FiveTuple(items[j]) # FiveTuple(items[i]))
                => \E k \in 1..Len(unique) : unique[k] = items[i]

-----------------------------------------------------------------------------
(* Ranker *)

(* Time is counted in half days from the instant of the request (Date.now()   *)
(* is 0); an ISO timestamp is written as the decimal numeral of its half-day  *)
(* count, and every other string is one Date.parse cannot read.  Places lie   *)
(* on the user's meridian, at a latitude in tenths of a degree.  An optional  *)
(* number is <<n>>, or <<>> when it is missing or NaN.                        *)

MaxRank == 3      \* length of the list given to rank

Infinity == 1000000            \* Number.POSITIVE_INFINITY: above every distance
MilliMilesPerTenthDegree == 6909   \* R * pi / 180 / 10 miles, times 1000
NoDays == 9999
ART_LIKED == 140
ART_TOP == 95
ART_FOLLOW == 75
ART_PREF == 40
ART_OTHER == 0

Abs(x) == IF x < 0 THEN 0 - x ELSE x

\* Date.parse: <<t>>, or <<>> for NaN
DateParse(s) ==
    IF s # <<>> /\ \A i \in 1..Len(s) : s[i] \in Digits
    THEN <<NumeralVal(s, 0)>>
    ELSE <<>>

\* Math.round(x / 2): the nearest integer, halves upwards
RoundHalf(x) == (x + 1) \div 2

\* Haversine distance in miles, between points of one meridian
distMiles(aLat, aLon, bLat, bLon) ==
    IF aLat = <<>> \/ aLon = <<>> \/ bLat = <<>> \/ bLon = <<>> THEN Infinity
    ELSE (MilliMilesPerTenthDegree * Abs(bLat[1] - aLat[1])) \div 1000

daysUntil(iso) ==
    IF iso = <<>> THEN NoDays
    ELSE LET t == DateParse(iso)
         IN  IF t = <<>> THEN NoDays ELSE Max(0, RoundHalf(t[1]))

locScore(e, c) ==
    LET d == distMiles(c.userLat, c.userLon, e.lat, e.lon)
    IN  IF d = Infinity THEN 0
        ELSE IF d <= 15 THEN 6
        ELSE IF d <= 50 THEN 5
        ELSE IF d <= 120 THEN 4
        ELSE IF d <= 200 THEN 3
        ELSE IF d <= 400 THEN 1
        ELSE 0

dateScore(e) ==
    LET d == daysUntil(e.start_utc)
    IN  IF d <= 14 THEN 2
        ELSE IF d <= 45 THEN 1
        ELSE IF d <= 180 THEN 1
        ELSE 0

\* const preferred = ctx.preferredArtistNames ?? new Set()
preferred(c) == IF c.preferredArtistNames = <<>> THEN {} ELSE c.preferredArtistNames[1]

\* const nameLc = toLc(e.artist_name) || toLc(e.event_name)
nameLc(e) == IF toLc(e.artist_name) # <<>> THEN toLc(e.artist_name) ELSE toLc(e.event_name)

\* a scorer that looks at the top set before the liked set
artistScore_TopFirst(e, c) ==
    IF nameLc(e) \in c.topArtistNames THEN ART_TOP
    ELSE IF nameLc(e) \in c.likedArtistNames THEN ART_LIKED
    ELSE IF nameLc(e) \in c.followedArtistNames THEN ART_FOLLOW
    ELSE IF nameLc(e) \in preferred(c) THEN ART_PREF
    ELSE ART_OTHER

artistScore(e, c) ==
    IF nameLc(e) \in c.likedArtistNames THEN ART_LIKED
    ELSE IF nameLc(e) \in c.topArtistNames THEN ART_TOP
    ELSE IF nameLc(e) \in c.followedArtistNames THEN ART_FOLLOW
    ELSE IF nameLc(e) \in preferred(c) THEN ART_PREF
    ELSE ART_OTHER

\* { ...e, _score: score }
Scored(e, c) ==
    [ source |-> e.source, source_id |-> e.source_id, event_name |-> e.event_name,
      artist_name |-> e.artist_name, venue_name |-> e.venue_name,
      lat |-> e.lat, lon |-> e.lon, start_utc |-> e.start_utc, url |-> e.url,
      score |-> artistScore(e, c) + locScore(e, c) + dateScore(e) ]

\* String.prototype.localeCompare under the root collation: letters compare
\* first without accent and case (space, punctuation, digits, letters in that
\* order), then by accent, then by case, lower case first
CollationOrder == <<" ", "!", "|", "'">> \o DigitSeq \o LowerAlpha
BaseChar(c) == LowerChar(IF c = EAcute THEN "e" ELSE IF c = EAcuteUpper THEN "E" ELSE c)
Primary(s) == [i \in 1..Len(s) |-> CHOOSE k \in 1..Len(CollationOrder) :
                                        CollationOrder[k] = BaseChar(s[i])]
Secondary(s) == [i \in 1..Len(s) |-> IF s[i] \in {EAcute, EAcuteUpper} THEN 1 ELSE 0]
Tertiary(s) == [i \in 1..Len(s) |-> IF s[i] \in UpperChars \cup {EAcuteUpper} THEN 1 ELSE 0]

RECURSIVE LexCompare(_, _)
LexCompare(a, b) ==
    IF a = <<>> /\ b = <<>> THEN 0
    ELSE IF a = <<>> THEN -1
    ELSE IF b = <<>> THEN 1
    ELSE IF Head(a) < Head(b) THEN -1
    ELSE IF Head(a) > Head(b) THEN 1
    ELSE LexCompare(Tail(a), Tail(b))

localeCompare(a, b) ==
    IF LexCompare(Primary(a), Primary(b)) # 0 THEN LexCompare(Primary(a), Primary(b))
    ELSE IF LexCompare(Secondary(a), Secondary(b)) # 0
         THEN LexCompare(Secondary(a), Secondary(b))
    ELSE LexCompare(Tertiary(a), Tertiary(b))

\* a comparator that breaks ties first and never looks at the score
compare_NoScore(a, b, c) ==
    LET ad == DateParse(a.start_utc)
        bd == DateParse(b.start_utc)
    IN  IF ad # <<>> /\ bd # <<>> /\ ad # bd THEN ad[1] - bd[1]
        ELSE localeCompare(a.event_name, b.event_name)

\* the comparator of scored.sort
compare(a, b, c) ==
    IF b.score # a.score THEN b.score - a.score
    ELSE LET ad == DateParse(a.start_utc)
             bd == DateParse(b.start_utc)
             da == distMiles(c.userLat, c.userLon, a.lat, a.lon)
             db == distMiles(c.userLat, c.userLon, b.lat, b.lon)
         IN  IF ad # <<>> /\ bd # <<>> /\ ad # bd THEN ad[1] - bd[1]
             ELSE IF da # db THEN da - db
             ELSE localeCompare(a.event_name, b.event_name)

(* Array.prototype.sort as Node's engine runs it on a short array: the     *)
(* leading run is found (and reversed when strictly descending), and the   *)
(* rest is inserted by binary search.                                      *)

Reverse(s) == [i \in 1..Len(s) |-> s[Len(s) + 1 - i]]

\* length of the leading run of a, Len(a) >= 2
RECURSIVE runEnd(_, _, _, _)
runEnd(a, c, desc, at) ==
    IF at > Len(a) THEN at - 1
    ELSE LET order == compare(a[at], a[at - 1], c)
         IN  IF (desc /\ order >= 0) \/ (~desc /\ order < 0) THEN at - 1
             ELSE runEnd(a, c, desc, at + 1)

\* the position at which pivot is inserted into a[left..right-1]
RECURSIVE searchPos(_, _, _, _, _)
searchPos(a, c, pivot, left, right) ==
    IF left >= right THEN left
    ELSE LET mid == left + ((right - left) \div 2)
         IN  IF compare(pivot, a[mid], c) < 0
             THEN searchPos(a, c, pivot, left, mid)
             ELSE searchPos(a, c, pivot, mid + 1, right)

RECURSIVE binaryInsertionSort(_, _, _)
binaryInsertionSort(a, c, start) ==
    IF start > Len(a) THEN a
    ELSE LET pivot == a[start]
             left == searchPos(a, c, pivot, 1, start)
             moved == SubSeq(a, 1, left - 1) \o <<pivot>> \o SubSeq(a, left, start - 1)
                      \o SubSeq(a, start + 1, Len(a))
         IN  binaryInsertionSort(moved, c, start + 1)

sort(a, c) ==
    IF Len(a) < 2 THEN a
    ELSE LET desc == compare(a[2], a[1], c) < 0
             run == runEnd(a, c, desc, 3)
             made == IF desc THEN Reverse(SubSeq(a, 1, run)) \o SubSeq(a, run + 1, Len(a))
                     ELSE a
         IN  binaryInsertionSort(made, c, run + 1)

rank(events, c) == sort([i \in 1..Len(events) |-> Scored(events[i], c)], c)

(* Inputs of rank *)

Kiss == <<"K", "i", "s", "s">>
KissLc == <<"k", "i", "s", "s">>
ZoeLc == <<"z", "o", "e">>

\* an EventItem as rank reads it
RankEvent(artist, name, start, lat) ==
    [ source |-> TM, source_id |-> <<"E", "1">>, event_name |-> name,
      artist_name |-> artist, venue_name |-> <<>>,
      lat |-> lat, lon |-> IF lat = <<>> THEN <<>> ELSE <<0>>,
      start_utc |-> start, url |-> <<>> ]

\* single events of every kind, for the scoring
ScoringEvents ==
    { RankEvent(a, n, st, la) :
        a \in {Queen, QueenLc, Zoe, <<>>}, n \in {Queen, Kiss, <<>>},
        st \in {<<>>, <<"5">>}, la \in {<<>>, <<0>>} }

ScoringCtxs ==
    [ userLat : {<<0>>}, userLon : {<<0>>},
      likedArtistNames : SUBSET {QueenLc},
      topArtistNames : SUBSET {QueenLc},
      followedArtistNames : SUBSET {QueenLc},
      preferredArtistNames : {<<>>, <<{}>>, <<{QueenLc}>>, <<{QueenLc, KissLc}>>} ]

\* when and where an event of the ordering inputs takes place: start_utc, lat
Occasions == { <<<<"4", "0", "0">>, <<2>>>>, <<<<>>, <<1>>>>, <<<<"5", "0", "0">>, <<0>>>>,
               <<<<"5">>, <<0>>>>, <<<<"5", "0", "0">>, <<80>>>> }

OrderingEvents ==
    { RankEvent(a, a, o[1], o[2]) : a \in {Queen, Zoe}, o \in Occasions }
    \cup { RankEvent(Queen, QueenTonight, <<"4", "0", "0">>, <<2>>) }

\* Queen is a liked artist, Zoe a top artist
OrderingCtx ==
    [ userLat |-> <<0>>, userLon |-> <<0>>,
      likedArtistNames |-> {QueenLc}, topArtistNames |-> {ZoeLc},
      followedArtistNames |-> {}, preferredArtistNames |-> <<{QueenLc, ZoeLc}>> ]

RankInit ==
    /\ \/ rankEvents \in SeqsUpTo(ScoringEvents, 1) /\ ctx \in ScoringCtxs
       \/ rankEvents \in SeqsUpTo(OrderingEvents, MaxRank) /\ ctx = OrderingCtx
    /\ ranked = <<>>
    /\ rankPc = "start"
    /\ MapIdle
    /\ PoolIdle
    /\ DedupeIdle
    /\ ApiIdle
    /\ RunIdle
    /\ QueryIdle
    /\ FetchIdle

Rank ==
    /\ rankPc = "start"
    /\ ranked' = rank(rankEvents, ctx)
    /\ rankPc' = "ranked"
    /\ UNCHANGED <<rankEvents, ctx, mapVars, poolVars, dedupeVars, apiVars, runVars, queryVars, fetchVars>>

RankNext == Rank

SpecRank == RankInit /\ [][RankNext]_vars

\* the artist-tier part of a ranked event's score
TierPart(r) == r.score - locScore(r, ctx) - dateScore(r)

\* the lookup key: lower-cased artist_name, or lower-cased event_name when
\* artist_name is absent or empty
LookupKey(r) ==
    IF r.artist_name = <<>> THEN toLowerCase(r.event_name) ELSE toLowerCase(r.artist_name)

PreferredSet == IF ctx.preferredArtistNames = <<>> THEN {} ELSE ctx.preferredArtistNames[1]

\* C7: the artist-tier score of each event is that of the first tier set that
\* holds its lookup key, in the order liked (140), top (95), followed (75),
\* preferred (40), and 0 when none holds it.
C7_ArtistTierScore ==
    rankPc = "ranked" =>
        \A k \in 1..Len(ranked) :
            LET key == LookupKey(ranked[k])
                inL == key \in ctx.likedArtistNames
                inT == key \in ctx.topArtistNames
                inF == key \in ctx.followedArtistNames
                inP == key \in PreferredSet
            IN  /\ inL => TierPart(ranked[k]) = 140
                /\ (~inL /\ inT) => TierPart(ranked[k]) = 95
                /\ (~inL /\ ~inT /\ inF) => TierPart(ranked[k]) = 75
                /\ (~inL /\ ~inT /\ ~inF /\ inP) => TierPart(ranked[k]) = 40
                /\ (~inL /\ ~inT /\ ~inF /\ ~inP) => TierPart(ranked[k]) = 0

\* C7 witness: an event without artist_name, found by its event_name in the
\* followed and the preferred set only, scored as followed
C7_Witness ==
    /\ rankPc = "ranked"
    /\ Len(ranked) = 1
    /\ ranked[1].artist_name = <<>>
    /\ LookupKey(ranked[1]) \notin ctx.likedArtistNames \cup ctx.topArtistNames
    /\ LookupKey(ranked[1]) \in ctx.followedArtistNames \cap PreferredSet
    /\ TierPart(ranked[1]) = 75

\* the events of a list, as a bag
RECURSIVE CountIn(_, _)
CountIn(x, l) ==
    IF l = <<>> THEN 0 ELSE (IF Head(l) = x THEN 1 ELSE 0) + CountIn(x, Tail(l))

Unscored(r) == RankEvent(r.artist_name, r.event_name, r.start_utc, r.lat)

\* C8: rank returns its input events in non-increasing order of total score,
\* so a liked artist's event precedes a top artist's event whatever their
\* distance and date.
C8_ScoreOrder ==
    rankPc = "ranked" =>
        /\ Len(ranked) = Len(rankEvents)
        /\ \A i \in 1..Len(rankEvents) :
              CountIn(rankEvents[i], [k \in 1..Len(ranked) |-> Unscored(ranked[k])])
                  = CountIn(rankEvents[i], rankEvents)
        /\ \A i, j \in 1..Len(ranked) : i < j => ranked[i].score >= ranked[j].score
        /\ \A i, j \in 1..Len(ranked) :
              (LookupKey(ranked[i]) \in ctx.likedArtistNames
               /\ LookupKey(ranked[j]) \notin ctx.likedArtistNames) => i < j

\* C8 witness: a top artist's event, near and soon, came first in the input,
\* a liked artist's event, far and late, last, and rank put the liked one first
C8_Witness ==
    /\ rankPc = "ranked"
    /\ Len(rankEvents) = 3
    /\ rankEvents[1] = RankEvent(Zoe, Zoe, <<"5">>, <<0>>)
    /\ rankEvents[3] = RankEvent(Queen, Queen, <<"5", "0", "0">>, <<80>>)
    /\ Unscored(ranked[1]) = rankEvents[3]

\* rank of every reordering of the input
Reorderings(n) == {p \in [1..n -> 1..n] : \A i, j \in 1..n : i # j => p[i] # p[j]}

\* C9: among events of equal score the order is a strict total order, by
\* earlier start_utc, then smaller distance, then smaller event_name: the
\* comparison is transitive and antisymmetric, the earlier of two equal-score
\* events with parseable start times comes first, and the output order of
\* events that are not identical does not depend on the input order.
C9_TieBreakTotalOrder ==
    rankPc = "ranked" =>
        LET R == Range(ranked)
            before(x, y) == compare(x, y, ctx) < 0
        IN  /\ \A x, y \in R : before(x, y) => ~before(y, x)
            /\ \A x, y, z \in R :
                  (x.score = y.score /\ y.score = z.score
                   /\ before(x, y) /\ before(y, z)) => before(x, z)
            /\ \A i, j \in 1..Len(ranked) :
                  (/\ ranked[i].score = ranked[j].score
                   /\ DateParse(ranked[i].start_utc) # <<>>
                   /\ DateParse(ranked[j].start_utc) # <<>>
                   /\ DateParse(ranked[i].start_utc)[1] < DateParse(ranked[j].start_utc)[1])
                  => i < j
            /\ \A p \in Reorderings(Len(rankEvents)) :
                  rank([i \in 1..Len(rankEvents) |-> rankEvents[p[i]]], ctx) = ranked

-----------------------------------------------------------------------------
(* GET /api/events *)

MaxApiList == 1     \* length of each of the three artist lists of a request

Limit == 2          \* runLimited(names, queryForArtist, 2, 260)
ResponseCap == 220  \* ranked.slice(0, 220)

\* the provider's performer search, in its order (sort: "name,asc")
tmAttractions == << [id |-> "K3", name |-> Bangs],
                    [id |-> "K1", name |-> Queen],
                    [id |-> "K5", name |-> QueenLc],
                    [id |-> "K2", name |-> ZoeAccent] >>

\* data?._embedded?.attractions of GET /attractions.json
AttractionsReply(keyword) == tmAttractions

\* data?._embedded?.events of GET /events.json?attractionId=: the events that
\* embed the performer
RECURSIVE EventsOfAttraction(_, _)
EventsOfAttraction(evs, id) ==
    IF evs = <<>> THEN <<>>
    ELSE (IF \E i \in 1..Len(Head(evs).attractions) : Head(evs).attractions[i].id = id
          THEN <<Head(evs)>> ELSE <<>>) \o EventsOfAttraction(Tail(evs), id)

\* data?._embedded?.events of GET /events.json with or without a keyword
EventsReply == tmEvents

\* items.filter(a => norm(a.name) === target).map(a => a.id)
RECURSIVE exactIds(_, _)
exactIds(its, target) ==
    IF its = <<>> THEN <<>>
    ELSE (IF norm(Head(its).name) = target THEN <<Head(its).id>> ELSE <<>>)
         \o exactIds(Tail(its), target)

findAttractionIdsByName(artistName) == exactIds(AttractionsReply(artistName), norm(artistName))

\* runLimited(ids, id => findTicketmasterEventsByAttractionId(...), 2, 200)
RECURSIVE viaIds(_, _)
viaIds(ids, artist) ==
    IF ids = <<>> THEN <<>>
    ELSE findTicketmasterEventsByAttractionId(
             Head(ids), artist, EventsOfAttraction(tmEvents, Head(ids)))
         \o viaIds(Tail(ids), artist)

queryForArtist(artist) ==
    LET ids == findAttractionIdsByName(artist)
    IN  IF ids # <<>> /\ viaIds(ids, artist) # <<>> THEN viaIds(ids, artist)
        ELSE findTicketmasterEventsByKeywordStrict(artist, EventsReply)

\* generic.filter(e => !ignoreSet.has(n) && set.has(n)), n the lower-cased artist_name
RECURSIVE filterTo(_, _)
filterTo(evs, set) ==
    IF evs = <<>> THEN <<>>
    ELSE (IF toLowerCase(Head(evs).artist_name) \notin ignoreSet
             /\ toLowerCase(Head(evs).artist_name) \in set
          THEN <<Head(evs)>> ELSE <<>>) \o filterTo(Tail(evs), set)

\* the fallback of /api/events, given the events of the generic search
fallback(generic) ==
    IF filterTo(generic, likedSet) # <<>> THEN filterTo(generic, likedSet)
    ELSE filterTo(generic, coreSet)

\* the ctx /api/events hands to rank
apiCtx ==
    [ userLat |-> <<0>>, userLon |-> <<0>>,
      likedArtistNames |-> likedSet, topArtistNames |-> topSet,
      followedArtistNames |-> followedSet, preferredArtistNames |-> <<coreSet>> ]

\* a venue at a latitude
Venue(latitude) ==
    [name |-> <<"V">>, latitude |-> latitude, longitude |-> <<"0">>]

\* the provider's events: Queen nearby soon, Zoe far away later, a Queen
\* tribute, and a concert of the band whose name is "!!!"
CatalogueEvents ==
    << [ id |-> EventIds[1], name |-> Queen, url |-> EventIds[1], dateTime |-> <<"5">>,
         attractions |-> <<[id |-> "K1", name |-> Queen]>>, venues |-> <<Venue(<<"0">>)>> ],
       [ id |-> EventIds[2], name |-> ZoeAccent, url |-> EventIds[2],
         dateTime |-> <<"5", "0", "0">>,
         attractions |-> <<[id |-> "K2", name |-> ZoeAccent]>>,
         venues |-> <<Venue(<<"8", "0">>)>> ],
       [ id |-> EventIds[3], name |-> TributeToQueen, url |-> EventIds[3],
         dateTime |-> <<"9">>,
         attractions |-> <<[id |-> "K1", name |-> Queen]>>, venues |-> <<>> ],
       [ id |-> EventIds[4], name |-> Bangs, url |-> EventIds[4], dateTime |-> <<"7">>,
         attractions |-> <<[id |-> "K3", name |-> Bangs]>>, venues |-> <<Venue(<<"1">>)>> ] >>

\* the subsequences of s
RECURSIVE SubSeqs(_)
SubSeqs(s) ==
    IF s = <<>> THEN {<<>>}
    ELSE LET rest == SubSeqs(Tail(s))
         IN  rest \cup {<<Head(s)>> \o r : r \in rest}

ApiNames == {QueenLc, Zoe, Bangs}

ApiInit ==
    /\ savedTracks \in SeqsUpTo(ApiNames, MaxApiList)
    /\ top \in SeqsUpTo(ApiNames, MaxApiList)
    /\ followed \in SeqsUpTo(ApiNames, MaxApiList)
    /\ ignoreSet \in {{}, {QueenLc}}
    /\ capQuery \in {<<>>, <<1>>} /\ breadth = "wide"
    /\ names = <<>> /\ poolPc = "start"
    /\ tmEvents \in SubSeqs(CatalogueEvents)
    /\ apiPc = "start" /\ idx = 1 /\ wk = <<>> /\ results = <<>>
    /\ all = <<>> /\ foundBy = {} /\ response = <<>>
    /\ unique = <<>> /\ ranked = <<>> /\ ctx = NoCtx
    /\ mapFn = "none"
    /\ mapIn = [artistName |-> <<>>, attractionId |-> "", events |-> <<>>]
    /\ mapOut = <<>>
    /\ items = <<>> /\ uniqueAgain = <<>> /\ dedupePc = "idle"
    /\ rankEvents = <<>> /\ rankPc = "idle"
    /\ RunIdle /\ QueryIdle /\ FetchIdle

apiFixed == <<savedTracks, top, followed, ignoreSet, capQuery, breadth, tmEvents,
              mapVars, items, uniqueAgain, dedupePc, rankEvents, rankPc,
              runVars, queryVars, fetchVars>>

\* the profile lists have arrived: the pool is built and runLimited starts
\* min(limit, inputs.length) workers, each claiming an index and calling
\* queryForArtist
ApiBegin ==
    /\ apiPc = "start"
    /\ LET pool == poolOf(likedNames, topNames, followedNames, capOf(capQuery, breadth))
           n == Min(Limit, Len(pool))
       IN  /\ names' = pool
           /\ wk' = [w \in 1..n |-> [pc |-> "await", i |-> w]]
           /\ idx' = n + 1
    /\ poolPc' = "built"
    /\ apiPc' = "query"
    /\ UNCHANGED <<results, all, foundBy, response, unique, ranked, ctx, apiFixed>>

\* await worker(item) returns: results.push(...r); then the worker sleeps
WorkerSettles(w) ==
    /\ apiPc = "query"
    /\ wk[w].pc = "await"
    /\ LET r == queryForArtist(names[wk[w].i])
       IN  /\ results' = results \o r
           /\ foundBy' = foundBy \cup {<<r[k].source_id, names[wk[w].i]>> : k \in 1..Len(r)}
    /\ wk' = [wk EXCEPT ![w].pc = "sleep"]
    /\ UNCHANGED <<names, poolPc, apiPc, idx, all, response, unique, ranked, ctx, apiFixed>>

\* await sleep(gapMs) returns: next() claims the following index, or ends
WorkerNext(w) ==
    /\ apiPc = "query"
    /\ wk[w].pc = "sleep"
    /\ idx' = idx + 1
    /\ wk' = [wk EXCEPT ![w] = IF idx > Len(names) THEN [pc |-> "done", i |-> idx]
                                 ELSE [pc |-> "await", i |-> idx]]
    /\ UNCHANGED <<names, poolPc, apiPc, results, all, foundBy, response,
                   unique, ranked, ctx, apiFixed>>

\* const unique = dedupe(all); const ranked = rank(...); res.json(...)
Respond(evs) ==
    /\ all' = evs
    /\ unique' = dedupe(evs)
    /\ ctx' = apiCtx
    /\ ranked' = rank(dedupe(evs), apiCtx)
    /\ response' = slice0(rank(dedupe(evs), apiCtx), ResponseCap)
    /\ apiPc' = "done"

\* await Promise.all(starters) returns with events: the response is sent
RunLimitedResolves ==
    /\ apiPc = "query"
    /\ \A w \in 1..Len(wk) : wk[w].pc = "done"
    /\ results # <<>>
    /\ Respond(results)
    /\ UNCHANGED <<names, poolPc, idx, wk, results, foundBy, apiFixed>>

\* await Promise.all(starters) returns without events: the generic search is sent
RunLimitedResolvesEmpty ==
    /\ apiPc = "query"
    /\ \A w \in 1..Len(wk) : wk[w].pc = "done"
    /\ results = <<>>
    /\ apiPc' = "generic"
    /\ UNCHANGED <<names, poolPc, idx, wk, results, all, foundBy, response,
                   unique, ranked, ctx, apiFixed>>

\* await findTicketmasterEventsGeneric(...) returns
GenericSettles ==
    /\ apiPc = "generic"
    /\ Respond(fallback(findTicketmasterEventsGeneric(EventsReply)))
    /\ UNCHANGED <<names, poolPc, idx, wk, results, foundBy, apiFixed>>

ApiNext ==
    \/ ApiBegin
    \/ \E w \in 1..Limit : w <= Len(wk) /\ WorkerSettles(w)
    \/ \E w \in 1..Limit : w <= Len(wk) /\ WorkerNext(w)
    \/ RunLimitedResolves
    \/ RunLimitedResolvesEmpty
    \/ GenericSettles

SpecApi == ApiInit /\ [][ApiNext]_vars

\* the artists whose query found the event
Finders(r) == {p[2] : p \in {q \in foundBy : q[1] = r.source_id}}
InLiked(a) == toLowerCase(a) \in likedSet
InTop(a) == toLowerCase(a) \in topSet
InFollowed(a) == toLowerCase(a) \in followedSet

\* C10: in the response, every event found for a liked artist stands above
\* every event found only for top or followed artists, and every event found
\* for a top artist above every event found only for followed artists.
C10_LikedTopFollowed ==
    apiPc = "done" =>
        \A i, j \in 1..Len(response) :
            LET fi == Finders(response[i])
                fj == Finders(response[j])
            IN  /\ ((\E a \in fi : InLiked(a)) /\ fj # {} /\ (\A b \in fj : ~InLiked(b)))
                       => i < j
                /\ ((\E a \in fi : InTop(a)) /\ fj # {}
                    /\ (\A b \in fj : ~InLiked(b) /\ ~InTop(b))) => i < j

\* the embedded performers of a provider event
PerformersOf(ev) == {ev.attractions[k] : k \in 1..Len(ev.attractions)}

\* the performer is one of the set's artists and is not ignored
ArtistIn(a, set) == toLowerCase(a.name) \notin ignoreSet /\ toLowerCase(a.name) \in set

\* the generic search returned an event of an artist of the set
GenericHas(set) ==
    \E k \in 1..Len(EventsReply) : \E a \in PerformersOf(EventsReply[k]) : ArtistIn(a, set)

\* the response holds the provider event
Returned(ev) == \E k \in 1..Len(response) : response[k].source_id = ev.id

\* C14: when no per-artist query yields an event, the response is the generic
\* search filtered to the liked set, or to the whole pool when no generic
\* event is of a liked artist: a generic event of a non-ignored liked artist
\* is in the response, and so is one of a pool artist when the liked filter
\* leaves nothing.
C14_GenericFallback ==
    (apiPc = "done" /\ results = <<>>) =>
        \A k \in 1..Len(EventsReply) :
            \A a \in PerformersOf(EventsReply[k]) :
                /\ ArtistIn(a, likedSet) => Returned(EventsReply[k])
                /\ (~GenericHas(likedSet) /\ ArtistIn(a, coreSet))
                      => Returned(EventsReply[k])

-----------------------------------------------------------------------------
(* runLimited *)

MaxInputs == 2      \* length of `inputs`
MaxLimit == 2       \* largest `limit`
MaxGap == 1         \* largest `gapMs`, in clock ticks

\* What the worker does for an item: it throws, or it returns an array, a
\* single value, or undefined.  `out` holds the array's elements, or the value.
Tasks ==
    { [kind |-> "throws", out |-> <<>>],
      [kind |-> "array", out |-> <<>>],
      [kind |-> "array", out |-> <<"a", "b">>],
      [kind |-> "value", out |-> <<"a">>],
      [kind |-> "undefined", out |-> <<>>] }

\* five inputs of which the third throws
FiveInputs ==
    [i \in 1..5 |-> IF i = 3 THEN [kind |-> "throws", out |-> <<>>]
                    ELSE [kind |-> "array", out |-> <<"a">>]]

\* a mutation of starterCount: one chain per unit of limit
starterCount_Limit(lim, len) == lim

\* Array.from({ length: Math.min(limit, inputs.length) }, () => next())
starterCount(lim, len) == Max(0, Min(lim, len))

\* a mutation of nextIdx: the counter skips an index
nextIdx_Skip(i) == i + 2

\* const i = idx++
nextIdx(i) == i + 1

\* a mutation of afterTask: a throw ends the chain with a rejection
afterTask_NoCatch(task) == IF task.kind = "throws" THEN "rejected" ELSE "sleep"

\* what next() does once the task is over: try/catch swallows a throw, and
\* both paths reach `await sleep(gapMs)`
afterTask(task) == "sleep"

\* a mutation of wakeAt: the timer is due at once
wakeAt_NoDelay(t, ms) == t

\* setTimeout(r, ms), set at time t
wakeAt(t, ms) == t + ms

\* the outputs of item i tagged with i, so that two items' outputs differ
RECURSIVE tagged(_, _)
tagged(i, out) ==
    IF out = <<>> THEN <<>>
    ELSE <<[item |-> i, out |-> Head(out)]>> \o tagged(i, Tail(out))

\* if (Array.isArray(r)) results.push(...r);
\* else if (typeof r !== "undefined") results.push(r);
pushResult(res, i, task) ==
    IF task.kind = "array" THEN res \o tagged(i, task.out)
    ELSE IF task.kind = "value" THEN Append(res, [item |-> i, out |-> task.out[1]])
    ELSE res

\* a next() chain that claimed index i at time t
claimed(i, t, since) ==
    [ pc |-> IF i > Len(inputs) THEN "done" ELSE "await",
      i |-> i, wake |-> 0, settledAt |-> since, claimedAt |-> t ]

\* a mutation of allReturned: the call returns when one chain has returned
allReturned_Any(w) == w = <<>> \/ \E k \in 1..Len(w) : w[k].pc = "done"

\* Promise.all(starters) settles when every chain has returned, or one has rejected
allReturned(w) == \A k \in 1..Len(w) : w[k].pc = "done"
anyRejected(w) == \E k \in 1..Len(w) : w[k].pc = "rejected"

\* the worker tasks in flight
InFlight == {w \in 1..Len(wk) : wk[w].pc = "await"}

RunInit ==
    /\ \/ /\ inputs \in SeqsUpTo(Tasks, MaxInputs)
          /\ limit \in 0..MaxLimit
          /\ gapMs \in 1..MaxGap
       \/ inputs = FiveInputs /\ limit = 2 /\ gapMs = 1
    /\ now = 0 /\ rlPc = "start" /\ starters = 0
    /\ invoked = <<>> /\ settled = <<>>
    /\ idx = 1 /\ wk = <<>> /\ results = <<>>
    /\ tmEvents = <<>> /\ apiPc = "idle" /\ all = <<>> /\ foundBy = {} /\ response = <<>>
    /\ MapIdle
    /\ PoolIdle
    /\ DedupeIdle
    /\ RankIdle
    /\ QueryIdle
    /\ FetchIdle

runFixed == <<inputs, limit, gapMs, tmEvents, apiPc, all, foundBy, response,
              mapVars, poolVars, dedupeVars, rankVars, queryVars, fetchVars>>

\* runLimited is called: the starters run next() one after the other, each
\* claiming an index and invoking its task
RunLimitedCalled ==
    /\ rlPc = "start"
    /\ LET n == starterCount(limit, Len(inputs))
       IN  /\ starters' = n
           /\ wk' = [w \in 1..n |-> claimed(w, now, <<>>)]
           /\ idx' = n + 1
           /\ invoked' = [w \in 1..Min(n, Len(inputs)) |-> w]
    /\ rlPc' = "running"
    /\ UNCHANGED <<now, results, settled, runFixed>>

\* await worker(item) returns or throws; the chain goes on to sleep(gapMs)
TaskSettles(w) ==
    /\ rlPc = "running"
    /\ wk[w].pc = "await"
    /\ LET i == wk[w].i
           task == inputs[i]
       IN  /\ results' = IF task.kind = "throws" THEN results
                         ELSE pushResult(results, i, task)
           /\ settled' = Append(settled, i)
           /\ wk' = [wk EXCEPT ![w].pc = afterTask(task),
                               ![w].wake = wakeAt(now, gapMs),
                               ![w].settledAt = <<now>>]
    /\ UNCHANGED <<now, rlPc, starters, idx, invoked, runFixed>>

\* the timer of sleep(gapMs) fires: return next()
SleepOver(w) ==
    /\ rlPc = "running"
    /\ wk[w].pc = "sleep"
    /\ now >= wk[w].wake
    /\ wk' = [wk EXCEPT ![w] = claimed(idx, now, wk[w].settledAt)]
    /\ idx' = nextIdx(idx)
    /\ invoked' = IF idx > Len(inputs) THEN invoked ELSE Append(invoked, idx)
    /\ UNCHANGED <<now, rlPc, starters, results, settled, runFixed>>

\* time passes while a timer is pending
Tick ==
    /\ rlPc = "running"
    /\ \E w \in 1..Len(wk) : wk[w].pc = "sleep" /\ now < wk[w].wake
    /\ now' = now + 1
    /\ UNCHANGED <<rlPc, starters, idx, wk, results, invoked, settled, runFixed>>

\* await Promise.all(starters); return results
PromiseAllSettles ==
    /\ rlPc = "running"
    /\ allReturned(wk) \/ anyRejected(wk)
    /\ rlPc' = IF anyRejected(wk) THEN "rejected" ELSE "resolved"
    /\ UNCHANGED <<now, starters, idx, wk, results, invoked, settled, runFixed>>

RunNext ==
    \/ RunLimitedCalled
    \/ \E w \in 1..(MaxLimit + 1) : w <= Len(wk) /\ TaskSettles(w)
    \/ \E w \in 1..(MaxLimit + 1) : w <= Len(wk) /\ SleepOver(w)
    \/ Tick
    \/ PromiseAllSettles

SpecRun == RunInit /\ [][RunNext]_vars

\* every task settles, every timer fires, and the event loop runs what is ready
SpecRunFair == SpecRun /\ WF_vars(RunNext)

\* the item's task succeeded
Successful(i) == inputs[i].kind # "throws"

\* the outputs item i yields: the elements of the array its task returned, or
\* the single value; none when the task threw or returned undefined
OutputsOf(i) ==
    IF inputs[i].kind \in {"array", "value"}
    THEN [k \in 1..Len(inputs[i].out) |-> [item |-> i, out |-> inputs[i].out[k]]]
    ELSE <<>>

\* the part of the result that came from item i
FromItem(i) == SelectSeq(results, LAMBDA r : r.item = i)

\* the items with an output in the result
ItemsIn(res) == {res[k].item : k \in 1..Len(res)}

\* the concatenation of the items' outputs, the items taken in the order p
RECURSIVE OutputsInOrder(_, _)
OutputsInOrder(p, k) ==
    IF k > Len(inputs) THEN <<>> ELSE OutputsOf(p[k]) \o OutputsInOrder(p, k + 1)

\* C11: for limit >= 1, when the task of some item throws, runLimited still
\* resolves (it never rejects); the failing item contributes no output, every
\* item is still invoked, and the result holds the outputs of every item whose
\* task succeeded.
C11_ThrowingTaskIsContained ==
    /\ rlPc # "rejected"
    /\ (rlPc = "resolved" /\ limit >= 1) =>
          /\ Range(invoked) = 1..Len(inputs)
          /\ \A i \in 1..Len(inputs) :
                /\ ~Successful(i) => FromItem(i) = <<>>
                /\ Successful(i) => FromItem(i) = OutputsOf(i)

\* limit 2 over 5 inputs with item 3 failing resolved with the outputs of
\* items 1, 2, 4 and 5 only
C11_Witness ==
    /\ rlPc = "resolved"
    /\ inputs = FiveInputs /\ limit = 2
    /\ ItemsIn(results) = {1, 2, 4, 5}

\* C12: a call starts exactly min(limit, inputs.length) workers, and at every
\* moment at most that many tasks are in flight.
C12_AtMostLimitInFlight ==
    /\ rlPc \in {"running", "resolved"} =>
          /\ starters = Min(limit, Len(inputs))
          /\ Len(wk) = starters
    /\ Cardinality(InFlight) <= Min(limit, Len(inputs))

\* five inputs under limit 2: both workers busy again after the first settle
C12_Witness ==
    /\ rlPc = "running"
    /\ inputs = FiveInputs /\ limit = 2
    /\ Len(settled) = 1
    /\ Cardinality(InFlight) = 2

\* C13: for limit >= 1 each index is claimed exactly once (none twice, none
\* skipped), and the result is the concatenation, in some order of the items,
\* of the items' outputs, each item's outputs contiguous and in task order.
C13_EachItemOnce ==
    /\ \A a, b \in 1..Len(invoked) : a # b => invoked[a] # invoked[b]
    /\ (rlPc = "resolved" /\ limit >= 1) =>
          /\ Range(invoked) = 1..Len(inputs)
          /\ \E p \in Reorderings(Len(inputs)) : results = OutputsInOrder(p, 1)

\* two workers raced: the second item's outputs precede the first item's
C13_Witness ==
    /\ rlPc = "resolved"
    /\ Len(inputs) = 2 /\ limit = 2
    /\ \A i \in 1..2 : inputs[i].out = <<"a", "b">>
    /\ results[1].item = 2 /\ results[3].item = 1

\* C17: a worker that has settled a task, successfully or not, claims its next
\* index only once gapMs has elapsed since the task settled.
C17_PacingDelay ==
    \A w \in 1..Len(wk) :
        (wk[w].pc \in {"await", "done"} /\ wk[w].settledAt # <<>>)
            => wk[w].claimedAt - wk[w].settledAt[1] >= gapMs

\* the single worker claimed item 2 after the task of item 1 threw
C17_Witness ==
    /\ limit = 1 /\ Len(inputs) >= 2 /\ Len(wk) = 1
    /\ inputs[1].kind = "throws"
    /\ wk[1].pc = "await" /\ wk[1].i = 2
    /\ wk[1].claimedAt >= gapMs

\* C18: when every task settles, runLimited resolves; when it resolves no task
\* is in flight and no chain is left that would claim an index (for limit >= 1
\* every index has been claimed); an empty input resolves with an empty result
\* and no task invoked; with limit above the input length every item is
\* claimed by its own starter.
C18_EventuallyResolves ==
    /\ <>(rlPc = "resolved")
    /\ [](rlPc = "resolved" =>
            /\ InFlight = {}
            /\ \A w \in 1..Len(wk) : wk[w].pc = "done"
            /\ Len(settled) = Len(invoked)
            /\ limit >= 1 => idx > Len(inputs)
            /\ inputs = <<>> => (results = <<>> /\ invoked = <<>>)
            /\ limit > Len(inputs) =>
                  /\ starters = Len(inputs)
                  /\ invoked = [w \in 1..Len(inputs) |-> w])

\* one item under limit 2 resolved, handled by the only worker started
C18_Witness ==
    /\ rlPc = "resolved"
    /\ Len(inputs) = 1 /\ limit = 2
    /\ Len(wk) = 1 /\ settled = <<1>>

-----------------------------------------------------------------------------
(* The fetch layer: tmGet and spGetUrl *)

Quote == "\""
Whitespace == {" ", "\n", "\t", "\r"}

\* the first index at or after i that holds no white space
RECURSIVE skipWs(_, _)
skipWs(s, i) == IF i <= Len(s) /\ s[i] \in Whitespace THEN skipWs(s, i + 1) ELSE i

\* the text s holds the word at index i
matchAt(s, i, word) ==
    /\ i + Len(word) - 1 <= Len(s)
    /\ SubSeq(s, i, i + Len(word) - 1) = word

\* the index of the first quote at or after i, or 0
RECURSIVE closingQuote(_, _)
closingQuote(s, i) ==
    IF i > Len(s) THEN 0 ELSE IF s[i] = Quote THEN i ELSE closingQuote(s, i + 1)

\* a JSON string (without escapes) at index i: <<characters, next index>>, or <<>>
parseString(s, i) ==
    IF i > Len(s) \/ s[i] # Quote \/ closingQuote(s, i + 1) = 0 THEN <<>>
    ELSE <<SubSeq(s, i + 1, closingQuote(s, i + 1) - 1), closingQuote(s, i + 1) + 1>>

\* an object's members with the member of key k set to v: a repeated key keeps
\* the last value
setMember(members, k, v) ==
    SelectSeq(members, LAMBDA m : m.key # k) \o <<[key |-> k, value |-> v]>>

\* JSON.parse, for the grammar of objects, arrays, strings without escapes,
\* unsigned whole numbers, true, false and null.  parseValue(s, i) is
\* <<value, next index>>, or <<>> where JSON.parse throws a SyntaxError.
RECURSIVE parseValue(_, _), parseMembers(_, _, _), parseItems(_, _, _)
parseValue(s, i0) ==
    LET i == skipWs(s, i0)
    IN  IF i > Len(s) THEN <<>>
        ELSE IF s[i] = "{" THEN
            (IF skipWs(s, i + 1) <= Len(s) /\ s[skipWs(s, i + 1)] = "}"
             THEN <<[t |-> "object", of |-> <<>>], skipWs(s, i + 1) + 1>>
             ELSE parseMembers(s, i + 1, <<>>))
        ELSE IF s[i] = "[" THEN
            (IF skipWs(s, i + 1) <= Len(s) /\ s[skipWs(s, i + 1)] = "]"
             THEN <<[t |-> "array", of |-> <<>>], skipWs(s, i + 1) + 1>>
             ELSE parseItems(s, i + 1, <<>>))
        ELSE IF s[i] = Quote THEN
            (IF parseString(s, i) = <<>> THEN <<>>
             ELSE <<[t |-> "string", of |-> parseString(s, i)[1]], parseString(s, i)[2]>>)
        ELSE IF s[i] \in Digits THEN
            LET d == DigitPrefix(SubSeq(s, i, Len(s)))
            IN  IF Len(d) > 1 /\ d[1] = "0" THEN <<>>
                ELSE <<[t |-> "number", of |-> NumeralVal(d, 0)], i + Len(d)>>
        ELSE IF matchAt(s, i, <<"n", "u", "l", "l">>)
            THEN <<[t |-> "null", of |-> <<>>], i + 4>>
        ELSE IF matchAt(s, i, <<"t", "r", "u", "e">>)
            THEN <<[t |-> "true", of |-> <<>>], i + 4>>
        ELSE IF matchAt(s, i, <<"f", "a", "l", "s", "e">>)
            THEN <<[t |-> "false", of |-> <<>>], i + 5>>
        ELSE <<>>

parseMembers(s, i0, acc) ==
    LET k == parseString(s, skipWs(s, i0))
    IN  IF k = <<>> THEN <<>>
        ELSE LET c == skipWs(s, k[2])
             IN  IF c > Len(s) \/ s[c] # ":" THEN <<>>
                 ELSE LET v == parseValue(s, c + 1)
                      IN  IF v = <<>> THEN <<>>
                          ELSE LET e == skipWs(s, v[2])
                                   members == setMember(acc, k[1], v[1])
                               IN  IF e > Len(s) THEN <<>>
                                   ELSE IF s[e] = "," THEN parseMembers(s, e + 1, members)
                                   ELSE IF s[e] = "}"
                                       THEN <<[t |-> "object", of |-> members], e + 1>>
                                   ELSE <<>>

parseItems(s, i0, acc) ==
    LET v == parseValue(s, i0)
    IN  IF v = <<>> THEN <<>>
        ELSE LET e == skipWs(s, v[2])
             IN  IF e > Len(s) THEN <<>>
                 ELSE IF s[e] = "," THEN parseItems(s, e + 1, Append(acc, v[1]))
                 ELSE IF s[e] = "]"
                     THEN <<[t |-> "array", of |-> Append(acc, v[1])], e + 1>>
                 ELSE <<>>

\* JSON.parse(text): <<value>>, or <<>> for a SyntaxError
JSONParse(text) ==
    LET r == parseValue(text, 1)
    IN  IF r = <<>> THEN <<>>
        ELSE IF skipWs(text, r[2]) <= Len(text) THEN <<>>
        ELSE <<r[1]>>

\* res.ok
resOk(res) == res.status >= 200 /\ res.status <= 299

\* what a call does: it throws, or it returns a value
Throws(error, res) == [kind |-> "throws", error |-> error, value |-> <<>>]
Returns(value) == [kind |-> "returns", error |-> "", value |-> <<value>>]

\* if (!res.ok) throw new Error(...); try { return JSON.parse(text); } catch { return {}; }
tmGet(res) ==
    IF ~resOk(res) THEN Throws("Ticketmaster failed", res)
    ELSE IF JSONParse(res.body) = <<>> THEN Returns([t |-> "object", of |-> <<>>])
    ELSE Returns(JSONParse(res.body)[1])

\* if (!res.ok) throw new Error(...); return JSON.parse(text);
spGetUrl(res) ==
    IF ~resOk(res) THEN Throws("Spotify GET failed", res)
    ELSE IF JSONParse(res.body) = <<>> THEN Throws("SyntaxError", res)
    ELSE Returns(JSONParse(res.body)[1])

\* the statuses and bodies an upstream may answer with
Statuses == {200, 201, 204, 299, 300, 304, 400, 401, 404, 429, 500, 503}

Bodies ==
    { <<>>,
      <<"{", "}">>,
      <<"{", "\"", "_", "e", "m", "b", "e", "d", "d", "e", "d", "\"", ":", "{", "\"", "e", "v", "e", "n", "t", "s", "\"", ":", "[", "]", "}", "}">>,
      <<"[", "1", ",", " ", "2", "0", "]">>,
      <<"n", "u", "l", "l">>,
      <<"<", "h", "t", "m", "l", ">">>,
      <<"{", "\"", "a", "\"", ":", "1">>,
      <<"{", "}", " ", "x">>,
      <<" ", "{", "\"", "a", "\"", ":", "[", "t", "r", "u", "e", "]", "}", " ">>,
      <<"{", "'", "a", "'", ":", "1", "}">>,
      <<"{", "\"", "a", "\"", ":", "1", ",", "\"", "a", "\"", ":", "\"", "b", "\"", "}">>,
      <<"T", "o", "o", " ", "M", "a", "n", "y", " ", "R", "e", "q", "u", "e", "s", "t", "s">> }

FetchInit ==
    /\ fetchFn = "none"
    /\ httpRes \in [status : Statuses, body : Bodies]
    /\ fetchOut = [kind |-> "none", error |-> "", value |-> <<>>]
    /\ MapIdle
    /\ PoolIdle
    /\ DedupeIdle
    /\ RankIdle
    /\ ApiIdle
    /\ RunIdle
    /\ QueryIdle

TmGet ==
    /\ fetchFn = "none"
    /\ fetchFn' = "tmGet"
    /\ fetchOut' = tmGet(httpRes)
    /\ UNCHANGED <<httpRes, mapVars, poolVars, dedupeVars, rankVars, apiVars,
                   runVars, queryVars>>

SpGetUrl ==
    /\ fetchFn = "none"
    /\ fetchFn' = "spGetUrl"
    /\ fetchOut' = spGetUrl(httpRes)
    /\ UNCHANGED <<httpRes, mapVars, poolVars, dedupeVars, rankVars, apiVars,
                   runVars, queryVars>>

FetchNext == TmGet \/ SpGetUrl

SpecFetch == FetchInit /\ [][FetchNext]_vars

\* the upstream answered with a failure: a non-success status or a body that
\* is not JSON
UpstreamFailure == ~resOk(httpRes) \/ JSONParse(httpRes.body) = <<>>

\* C15: an upstream failure, a non-success status or an unparseable body, is
\* raised by the fetch function to its caller and never returned as a value.
C15_FetchFailureIsRaised ==
    (fetchFn # "none" /\ UpstreamFailure) => fetchOut.kind = "throws"

-----------------------------------------------------------------------------
(* The per-artist phase of GET /api/events, request by request *)

MaxQueryNames == 2  \* length of the artist pool

InnerLimit == 2     \* runLimited(ids, ..., 2, 200)

\* the kinds of request queryForArtist sends
RequestKinds == {"attractions", "byId", "keyword"}

\* one request to the provider
Request(kind, artist, id) == [kind |-> kind, artist |-> artist, id |-> id]

\* next() of the outer runLimited claims index i: queryForArtist(names[i])
\* starts by sending the attraction search
claimArtist(i) ==
    [ pc |-> IF i > Len(names) THEN "done" ELSE "ids",
      i |-> i, ids |-> <<>>, inner |-> <<>>, inIdx |-> 1, viaIds |-> <<>> ]

\* next() of the inner runLimited claims index i of ids
claimId(i, ids) == [pc |-> IF i > Len(ids) THEN "done" ELSE "await", i |-> i]

\* a mutation of afterIdentity: the keyword query is sent whatever the ids found
afterIdentity_Always(found) == "strict"

\* if (viaIds.length) return viaIds; otherwise the strict keyword query
afterIdentity(found) == IF found # <<>> THEN "return" ELSE "strict"

\* the requests a chain of the outer runLimited has in flight
InFlightOf(c) ==
    IF c.pc \in {"ids", "strict"} THEN 1
    ELSE IF c.pc = "viaIds"
        THEN Cardinality({k \in 1..Len(c.inner) : c.inner[k].pc = "await"})
    ELSE 0

RECURSIVE SumInFlight(_)
SumInFlight(chains) ==
    IF chains = <<>> THEN 0 ELSE InFlightOf(Head(chains)) + SumInFlight(Tail(chains))

\* the requests to the provider in flight
RequestsInFlight == SumInFlight(wk)

\* the pools: names that differ beyond letter case, as uniquePreserveOrder leaves them
QueryPools ==
    {l \in SeqsUpTo(ApiNames, MaxQueryNames) :
        \A i, j \in 1..Len(l) : i # j => l[i] # l[j]}

QueryInit ==
    /\ names \in QueryPools
    /\ tmEvents \in SubSeqs(CatalogueEvents)
    /\ tmDown \in SUBSET RequestKinds
    /\ tmLog = {}
    /\ apiPc = "start" /\ idx = 1 /\ wk = <<>> /\ results = <<>>
    /\ all = <<>> /\ foundBy = {} /\ response = <<>>
    /\ savedTracks = <<>> /\ top = <<>> /\ followed = <<>>
    /\ ignoreSet = {} /\ capQuery = <<>> /\ breadth = "wide" /\ poolPc = "built"
    /\ MapIdle
    /\ DedupeIdle
    /\ RankIdle
    /\ RunIdle
    /\ FetchIdle

queryFixed == <<names, tmEvents, tmDown, response, savedTracks, top, followed,
                ignoreSet, capQuery, breadth, poolPc,
                mapVars, dedupeVars, rankVars, runVars, fetchVars>>

\* runLimited(names, queryForArtist, 2, 260) is called: each starter claims
\* an artist and sends the attraction search
QueryBegin ==
    /\ apiPc = "start"
    /\ LET n == starterCount(Limit, Len(names))
       IN  /\ wk' = [w \in 1..n |-> claimArtist(w)]
           /\ idx' = n + 1
           /\ tmLog' = tmLog \cup {Request("attractions", names[w], "") : w \in 1..n}
    /\ apiPc' = "query"
    /\ UNCHANGED <<results, all, foundBy, queryFixed>>

\* await findAttractionIdsByName(artist) settles.  A failure rejects
\* queryForArtist, which the outer runLimited catches; with ids the inner
\* runLimited starts its chains; without ids the keyword query is sent.
AttractionsSettle(w) ==
    /\ apiPc = "query"
    /\ wk[w].pc = "ids"
    /\ LET artist == names[wk[w].i]
           ids == findAttractionIdsByName(artist)
           n == starterCount(InnerLimit, Len(ids))
       IN  IF "attractions" \in tmDown
           THEN /\ wk' = [wk EXCEPT ![w].pc = "sleep"]
                /\ UNCHANGED tmLog
           ELSE IF ids # <<>>
           THEN /\ wk' = [wk EXCEPT ![w].pc = "viaIds", ![w].ids = ids,
                                    ![w].inner = [k \in 1..n |-> claimId(k, ids)],
                                    ![w].inIdx = n + 1]
                /\ tmLog' = tmLog \cup {Request("byId", artist, ids[k]) : k \in 1..n}
           ELSE /\ wk' = [wk EXCEPT ![w].pc = "strict"]
                /\ tmLog' = tmLog \cup {Request("keyword", artist, "")}
    /\ UNCHANGED <<apiPc, idx, results, all, foundBy, queryFixed>>

\* await findTicketmasterEventsByAttractionId(...) settles inside the inner
\* runLimited, which catches a failure
IdentitySettles(w, k) ==
    /\ apiPc = "query"
    /\ wk[w].pc = "viaIds"
    /\ k <= Len(wk[w].inner)
    /\ wk[w].inner[k].pc = "await"
    /\ LET artist == names[wk[w].i]
           id == wk[w].ids[wk[w].inner[k].i]
           r == IF "byId" \in tmDown THEN <<>>
                ELSE findTicketmasterEventsByAttractionId(
                         id, artist, EventsOfAttraction(tmEvents, id))
       IN  /\ wk' = [wk EXCEPT ![w].inner[k].pc = "sleep",
                               ![w].viaIds = wk[w].viaIds \o r]
           /\ foundBy' = foundBy \cup
                  {<<artist, "identity", r[j].source_id>> : j \in 1..Len(r)}
    /\ UNCHANGED <<apiPc, idx, results, all, tmLog, queryFixed>>

\* await sleep(200) is over inside the inner runLimited: the chain claims the
\* next id and sends its query, or returns
InnerSleepOver(w, k) ==
    /\ apiPc = "query"
    /\ wk[w].pc = "viaIds"
    /\ k <= Len(wk[w].inner)
    /\ wk[w].inner[k].pc = "sleep"
    /\ wk' = [wk EXCEPT ![w].inner[k] = claimId(wk[w].inIdx, wk[w].ids),
                        ![w].inIdx = nextIdx(wk[w].inIdx)]
    /\ tmLog' = IF wk[w].inIdx > Len(wk[w].ids) THEN tmLog
                ELSE tmLog \cup {Request("byId", names[wk[w].i], wk[w].ids[wk[w].inIdx])}
    /\ UNCHANGED <<apiPc, idx, results, all, foundBy, queryFixed>>

\* the inner runLimited resolves: queryForArtist returns viaIds when it holds
\* an event, and sends the keyword query otherwise
InnerResolves(w) ==
    /\ apiPc = "query"
    /\ wk[w].pc = "viaIds"
    /\ allReturned(wk[w].inner)
    /\ IF afterIdentity(wk[w].viaIds) = "return"
       THEN /\ results' = results \o wk[w].viaIds
            /\ wk' = [wk EXCEPT ![w].pc = "sleep"]
            /\ UNCHANGED tmLog
       ELSE /\ wk' = [wk EXCEPT ![w].pc = "strict"]
            /\ tmLog' = tmLog \cup {Request("keyword", names[wk[w].i], "")}
            /\ UNCHANGED results
    /\ UNCHANGED <<apiPc, idx, all, foundBy, queryFixed>>

\* await findTicketmasterEventsByKeywordStrict(...) settles: queryForArtist
\* returns its events, or rejects, which the outer runLimited catches
KeywordSettles(w) ==
    /\ apiPc = "query"
    /\ wk[w].pc = "strict"
    /\ LET artist == names[wk[w].i]
           r == IF "keyword" \in tmDown THEN <<>>
                ELSE findTicketmasterEventsByKeywordStrict(artist, EventsReply)
       IN  /\ results' = results \o r
           /\ foundBy' = foundBy \cup
                  {<<artist, "keyword", r[j].source_id>> : j \in 1..Len(r)}
    /\ wk' = [wk EXCEPT ![w].pc = "sleep"]
    /\ UNCHANGED <<apiPc, idx, all, tmLog, queryFixed>>

\* await sleep(260) is over in the outer runLimited: the chain claims the next
\* artist and sends the attraction search, or returns
OuterSleepOver(w) ==
    /\ apiPc = "query"
    /\ wk[w].pc = "sleep"
    /\ wk' = [wk EXCEPT ![w] = claimArtist(idx)]
    /\ idx' = nextIdx(idx)
    /\ tmLog' = IF idx > Len(names) THEN tmLog
                ELSE tmLog \cup {Request("attractions", names[idx], "")}
    /\ UNCHANGED <<apiPc, results, all, foundBy, queryFixed>>

\* let all = await runLimited(names, queryForArtist, 2, 260) resolves
QueryResolves ==
    /\ apiPc = "query"
    /\ allReturned(wk)
    /\ all' = results
    /\ apiPc' = "queried"
    /\ UNCHANGED <<idx, wk, results, foundBy, tmLog, queryFixed>>

QueryNext ==
    \/ QueryBegin
    \/ \E w \in 1..Limit : w <= Len(wk) /\ AttractionsSettle(w)
    \/ \E w \in 1..Limit, k \in 1..InnerLimit : w <= Len(wk) /\ IdentitySettles(w, k)
    \/ \E w \in 1..Limit, k \in 1..InnerLimit : w <= Len(wk) /\ InnerSleepOver(w, k)
    \/ \E w \in 1..Limit : w <= Len(wk) /\ InnerResolves(w)
    \/ \E w \in 1..Limit : w <= Len(wk) /\ KeywordSettles(w)
    \/ \E w \in 1..Limit : w <= Len(wk) /\ OuterSleepOver(w)
    \/ QueryResolves

SpecQuery == QueryInit /\ [][QueryNext]_vars

\* the identity queries of a chain are all over
IdentityOver(c) == allReturned(c.inner) /\ c.inIdx > Len(c.ids)

\* the keyword query for the artist was sent
KeywordSent(artist) == Request("keyword", artist, "") \in tmLog

\* C19: queryForArtist sends the keyword query only when the identity queries
\* for all exact-name ids are over and produced no event; when they produce
\* an event the artist's result holds identity events only and no keyword
\* query is sent for the artist.
C19_KeywordAfterIdentity ==
    /\ \A w \in 1..Len(wk) :
          wk[w].pc = "strict" => (IdentityOver(wk[w]) /\ wk[w].viaIds = <<>>)
    /\ \A f \in foundBy :
          f[2] = "identity" =>
              /\ ~KeywordSent(f[1])
              /\ \A g \in foundBy : g[1] = f[1] => g[2] = "identity"
    /\ \A w \in 1..Len(wk) :
          (wk[w].pc \in {"ids", "viaIds"}) => ~KeywordSent(names[wk[w].i])

\* the keyword query is in flight for an artist whose two ids were both
\* queried and gave no event
C19_Witness ==
    \E w \in 1..Len(wk) :
        /\ wk[w].pc = "strict"
        /\ Len(wk[w].ids) = 2
        /\ \A k \in 1..2 : Request("byId", names[wk[w].i], wk[w].ids[k]) \in tmLog

\* C20: during the per-artist phase at most 2 requests to the provider are in
\* flight.
C20_AtMostTwoRequests == RequestsInFlight <= Limit

====
